---- MODULE Spec2Model ----
(***************************************************************************)
(* Model of src/src/TeacherDashboard.jsx: the TeacherDashboard component,  *)
(* its load() effect, the two memoised derivations (latestPerStudent and   *)
(* visible) and the per-card rendering helpers.                            *)
(*                                                                         *)
(* Strings that the code takes apart (names, the search box) are sequences *)
(* of one-character strings; strings that are only compared (levels, score *)
(* keys, labels) are TLA+ strings.  An optional field of a document is     *)
(* Absent (<< >>) or Some(v) (<< v >>).                                    *)
(***************************************************************************)
EXTENDS Integers, Sequences, FiniteSets, TLC

VARIABLES
    loading,          \* useState(true),   line 64
    results,          \* useState([]),     line 65
    levelFilter,      \* useState("all"),  line 66
    search,           \* useState(""),     line 67
    mounted,          \* let mounted,      line 70 (cleared by the cleanup, line 88)
    pc,               \* position of load(): "init", "awaiting", "done", "discarded"
    response,         \* what the await of line 75-76 produced
    fetches,          \* number of getDocs calls issued (line 75)
    latestPerStudent, \* useMemo value, lines 92-109
    visible           \* useMemo value, lines 112-130

vars == <<loading, results, levelFilter, search, mounted, pc, response,
          fetches, latestPerStudent, visible>>

viewState == <<loading, results, levelFilter, search>>

-----------------------------------------------------------------------------
(* Optional values *)

Absent == << >>

Some(v) == << v >>

-----------------------------------------------------------------------------
(* Characters and strings *)

LowerLetters ==
    <<"a","b","c","d","e","f","g","h","i","j","k","l","m",
      "n","o","p","q","r","s","t","u","v","w","x","y","z">>

UpperLetters ==
    <<"A","B","C","D","E","F","G","H","I","J","K","L","M",
      "N","O","P","Q","R","S","T","U","V","W","X","Y","Z">>

IsUpper(c) == \E i \in 1..Len(UpperLetters) : UpperLetters[i] = c

\* String.prototype.toLowerCase on one character
ToLowerChar(c) ==
    IF IsUpper(c)
    THEN LowerLetters[CHOOSE i \in 1..Len(UpperLetters) : UpperLetters[i] = c]
    ELSE c

\* String.prototype.toLowerCase
ToLowerCase(s) == [i \in 1..Len(s) |-> ToLowerChar(s[i])]

IsWhitespace(c) == c = " "

RECURSIVE TrimStart(_)
TrimStart(s) ==
    IF s = << >> THEN << >>
    ELSE IF IsWhitespace(Head(s)) THEN TrimStart(Tail(s))
    ELSE s

RECURSIVE TrimEnd(_)
TrimEnd(s) ==
    IF s = << >> THEN << >>
    ELSE IF IsWhitespace(s[Len(s)]) THEN TrimEnd(SubSeq(s, 1, Len(s) - 1))
    ELSE s

\* String.prototype.trim
Trim(s) == TrimEnd(TrimStart(s))

\* String.prototype.includes
Includes(hay, needle) ==
    \E i \in 0..(Len(hay) - Len(needle)) :
        SubSeq(hay, i + 1, i + Len(needle)) = needle

\* Collation: blanks and punctuation before letters, letters alphabetically
\* whatever their case (primary level), lower case before upper case between
\* strings that differ only in case (tertiary level).
CollationRank(c) ==
    IF c = " " THEN 1
    ELSE IF c = "(" THEN 2
    ELSE IF c = ")" THEN 3
    ELSE 3 + (CHOOSE i \in 1..Len(LowerLetters) : LowerLetters[i] = ToLowerChar(c))

PrimaryKey(s) == [i \in 1..Len(s) |-> CollationRank(s[i])]

TertiaryKey(s) == [i \in 1..Len(s) |-> IF IsUpper(s[i]) THEN 1 ELSE 0]

RECURSIVE LexCompare(_, _)
LexCompare(ka, kb) ==
    IF ka = << >> /\ kb = << >> THEN 0
    ELSE IF ka = << >> THEN -1
    ELSE IF kb = << >> THEN 1
    ELSE IF Head(ka) < Head(kb) THEN -1
    ELSE IF Head(ka) > Head(kb) THEN 1
    ELSE LexCompare(Tail(ka), Tail(kb))

\* String.prototype.localeCompare
LocaleCompare(a, b) ==
    LET p == LexCompare(PrimaryKey(a), PrimaryKey(b))
    IN  IF p # 0 THEN p ELSE LexCompare(TertiaryKey(a), TertiaryKey(b))

-----------------------------------------------------------------------------
(* Constants of the component *)

INTELLIGENCE_KEYS ==
    <<"Linguistic", "Logical-Mathematical", "Spatial", "Kinesthetic",
      "Musical", "Interpersonal", "Intrapersonal", "Naturalistic">>

LABELS ==
    ("Linguistic" :> "Linguistic") @@
    ("Logical-Mathematical" :> "Logical/Math") @@
    ("Spatial" :> "Spatial") @@
    ("Kinesthetic" :> "Kinesthetic") @@
    ("Musical" :> "Musical") @@
    ("Interpersonal" :> "Interpersonal") @@
    ("Intrapersonal" :> "Intrapersonal") @@
    ("Naturalistic" :> "Naturalistic")

MAX_SCORE == 9

\* the n passed to topIntelligences by the card (line 162)
TopN == 3

\* the <option> values of the grade selector (lines 140-144)
LevelFilterOptions == {"all", "level1", "level2", "level3", "level4"}

\* the levels used when no record was loaded (line 114)
FallbackLevels == <<"level1", "level2", "level3", "level4">>

NoName == <<"(", "n", "o", " ", "n", "a", "m", "e", ")">>

\* Names every object literal inherits from Object.prototype: reading
\* obj[name] yields a function (truthy, with no createdAt) unless obj has an
\* own property of that name.  "constructor" stands for them all; the levels
\* used below are never such names.
ObjectPrototypeKeys == { <<"c","o","n","s","t","r","u","c","t","o","r">> }

-----------------------------------------------------------------------------
(* Documents *)

Timestamp(ms) == [kind |-> "timestamp", ms |-> ms]

Date(ms) == [kind |-> "date", ms |-> ms]

\* createdAt.toDate exists on a store timestamp only
HasToDate(v) == v.kind = "timestamp"

\* { id: doc.id, ...doc.data() }, createdAt converted when it can be
NormalizeDoc(doc) ==
    IF doc.createdAt # Absent /\ HasToDate(doc.createdAt[1])
    THEN [doc EXCEPT !.createdAt = Some(Date(doc.createdAt[1].ms))]
    ELSE doc

\* snap.docs.map(normalizeDoc)
NormalizeDocs(docs) == [i \in 1..Len(docs) |-> NormalizeDoc(docs[i])]

\* r.level || "unknown"
LevelKey(r) ==
    IF r.level = Absent \/ r.level = Some("") THEN "unknown" ELSE r.level[1]

\* x || ""
OrEmpty(x) == IF x = Absent THEN << >> ELSE x[1]

\* `${r.firstName || ""} ${r.lastName || ""}`.trim() || "(no name)"
DisplayName(r) ==
    LET t == Trim(OrEmpty(r.firstName) \o <<" ">> \o OrEmpty(r.lastName))
    IN  IF t = << >> THEN NoName ELSE t

\* x.createdAt ? +new Date(x.createdAt) : 0
TimeOf(createdAt) == IF createdAt = Absent THEN 0 ELSE createdAt[1].ms

-----------------------------------------------------------------------------
(* Card helpers *)

Label(k) == IF k \in DOMAIN LABELS THEN LABELS[k] ELSE k

\* variant: the comparator is a[1] - b[1]
RECURSIVE InsertByScoreAscending(_, _)
InsertByScoreAscending(sorted, e) ==
    IF sorted = << >> THEN <<e>>
    ELSE IF e.val - Head(sorted).val < 0 THEN <<e>> \o sorted
    ELSE <<Head(sorted)>> \o InsertByScoreAscending(Tail(sorted), e)

\* Array.prototype.sort with (a, b) => b[1] - a[1]: a stable sort, so an entry
\* is placed after every entry whose score is not smaller than its own.
RECURSIVE InsertByScore(_, _)
InsertByScore(sorted, e) ==
    IF sorted = << >> THEN <<e>>
    ELSE IF Head(sorted).val - e.val < 0 THEN <<e>> \o sorted
    ELSE <<Head(sorted)>> \o InsertByScore(Tail(sorted), e)

RECURSIVE SortByScore(_)
SortByScore(entries) ==
    IF entries = << >> THEN << >>
    ELSE InsertByScore(SortByScore(SubSeq(entries, 1, Len(entries) - 1)),
                       entries[Len(entries)])

\* Array.prototype.slice(0, n)
Slice(s, n) == SubSeq(s, 1, IF Len(s) < n THEN Len(s) ELSE n)

TopIntelligences(scores, n) ==
    IF scores = Absent THEN << >>
    ELSE LET top == Slice(SortByScore(scores[1]), n)
         IN  [i \in 1..Len(top) |-> Label(top[i].key)]

LevelToGrade(level) ==
    IF level = "" THEN "Unknown"
    ELSE IF level = "level1" THEN "Grade 9"
    ELSE IF level = "level2" THEN "Grade 10"
    ELSE IF level = "level3" THEN "Grade 11"
    ELSE IF level = "level4" THEN "Grade 12"
    ELSE level

\* s.scores || {}
ScoresOrEmpty(scores) == IF scores = Absent THEN Some(<< >>) ELSE scores

\* typeof scores[key] === "number" ? scores[key] : 0
ScoreOf(scores, key) ==
    IF \E i \in 1..Len(scores[1]) : scores[1][i].key = key
    THEN scores[1][CHOOSE i \in 1..Len(scores[1]) : scores[1][i].key = key].val
    ELSE 0

\* Math.round((val / MAX_SCORE) * 100)
Pct(val) == (2 * 100 * val + MAX_SCORE) \div (2 * MAX_SCORE)

BarRow(scores, key) ==
    [label |-> Label(key), val |-> ScoreOf(scores, key), pct |-> Pct(ScoreOf(scores, key))]

\* one td-card (lines 159-191)
RenderCard(item) ==
    LET scores == ScoresOrEmpty(item.doc.scores)
    IN  [name  |-> item.name,
         grade |-> LevelToGrade(item.level),
         top   |-> TopIntelligences(scores, TopN),
         bars  |-> [i \in 1..Len(INTELLIGENCE_KEYS) |-> BarRow(scores, INTELLIGENCE_KEYS[i])]]

-----------------------------------------------------------------------------
(* latestPerStudent (lines 92-109).  The object map is a sequence of          *)
(* [level, students] in key order, students a sequence of [name, doc] in key  *)
(* order: own properties only.                                                *)

HasLevel(map, lvl) == \E i \in 1..Len(map) : map[i].level = lvl

LevelIndex(map, lvl) == CHOOSE i \in 1..Len(map) : map[i].level = lvl

\* latestPerStudent[lvl] || {}
StudentsOf(map, lvl) ==
    IF HasLevel(map, lvl) THEN map[LevelIndex(map, lvl)].students ELSE << >>

HasOwn(students, name) == \E i \in 1..Len(students) : students[i].name = name

OwnIndex(students, name) == CHOOSE i \in 1..Len(students) : students[i].name = name

\* map[lvl][name] is truthy: an own property (always a record), or a function
\* inherited from Object.prototype
LookupTruthy(students, name) ==
    HasOwn(students, name) \/ name \in ObjectPrototypeKeys

\* prev.createdAt of map[lvl][name]: the own record's, or undefined on an
\* inherited function
PrevCreatedAt(students, name) ==
    IF HasOwn(students, name)
    THEN students[OwnIndex(students, name)].doc.createdAt
    ELSE Absent

\* map[lvl][name] = r: an existing own key keeps its place, a new one is appended
PutStudent(students, name, r) ==
    IF HasOwn(students, name)
    THEN [students EXCEPT ![OwnIndex(students, name)].doc = r]
    ELSE Append(students, [name |-> name, doc |-> r])

\* map[lvl] = map[lvl] || {}
EnsureLevel(map, lvl) ==
    IF HasLevel(map, lvl) THEN map
    ELSE Append(map, [level |-> lvl, students |-> << >>])

\* the curTime > prevTime test of line 105
IsNewer(curTime, prevTime) == curTime > prevTime

\* the callback of results.forEach (lines 94-107)
AddRecord(map, r) ==
    LET lvl      == LevelKey(r)
        name     == DisplayName(r)
        map1     == EnsureLevel(map, lvl)
        k        == LevelIndex(map1, lvl)
        students == map1[k].students
    IN  IF ~LookupTruthy(students, name)
        THEN [map1 EXCEPT ![k].students = PutStudent(students, name, r)]
        ELSE LET prevTime == TimeOf(PrevCreatedAt(students, name))
                 curTime  == TimeOf(r.createdAt)
             IN  IF IsNewer(curTime, prevTime)
                 THEN [map1 EXCEPT ![k].students = PutStudent(students, name, r)]
                 ELSE map1

RECURSIVE LatestPerStudent(_)
LatestPerStudent(records) ==
    IF records = << >> THEN << >>
    ELSE AddRecord(LatestPerStudent(SubSeq(records, 1, Len(records) - 1)),
                   records[Len(records)])

-----------------------------------------------------------------------------
(* visible (lines 112-130) *)

\* variant: the level test is dropped
KeepLevelAlways(lvl, filter) == TRUE

KeepLevel(lvl, filter) == ~(filter # "all" /\ lvl # filter)

KeepName(name, text) ==
    ~(text # << >> /\ ~Includes(ToLowerCase(name), ToLowerCase(text)))

\* Object.keys(latestPerStudent).length ? Object.keys(latestPerStudent) : [...]
CandidateLevels(map) ==
    IF Len(map) # 0 THEN [i \in 1..Len(map) |-> map[i].level] ELSE FallbackLevels

\* the inner forEach over Object.keys(students)
RECURSIVE PushStudents(_, _, _)
PushStudents(lvl, students, text) ==
    IF students = << >> THEN << >>
    ELSE (IF KeepName(Head(students).name, text)
          THEN << [level |-> lvl, name |-> Head(students).name, doc |-> Head(students).doc] >>
          ELSE << >>)
         \o PushStudents(lvl, Tail(students), text)

\* the outer forEach over levels
RECURSIVE PushLevels(_, _, _, _)
PushLevels(levels, map, filter, text) ==
    IF levels = << >> THEN << >>
    ELSE (IF KeepLevel(Head(levels), filter)
          THEN PushStudents(Head(levels), StudentsOf(map, Head(levels)), text)
          ELSE << >>)
         \o PushLevels(Tail(levels), map, filter, text)

\* arr.sort((a, b) => a.name.localeCompare(b.name)): stable
RECURSIVE InsertByName(_, _)
InsertByName(sorted, e) ==
    IF sorted = << >> THEN <<e>>
    ELSE IF LocaleCompare(Head(sorted).name, e.name) > 0 THEN <<e>> \o sorted
    ELSE <<Head(sorted)>> \o InsertByName(Tail(sorted), e)

RECURSIVE SortByName(_)
SortByName(arr) ==
    IF arr = << >> THEN << >>
    ELSE InsertByName(SortByName(SubSeq(arr, 1, Len(arr) - 1)), arr[Len(arr)])

Visible(map, filter, text) ==
    SortByName(PushLevels(CandidateLevels(map), map, filter, text))

-----------------------------------------------------------------------------
(* The documents the store may return *)

MakeDoc(i, d) ==
    [id |-> i, firstName |-> d.firstName, lastName |-> d.lastName,
     level |-> d.level, createdAt |-> d.createdAt, scores |-> d.scores]

DataSet(levels, names, times, scoreSets) ==
    { [firstName |-> n[1], lastName |-> n[2], level |-> l, createdAt |-> t, scores |-> sc] :
        l \in levels, n \in names, t \in times, sc \in scoreSets }

\* query snapshots of at most n documents, ids assigned by the store
SnapshotsOf(pool, n) ==
    UNION { { [i \in 1..k |-> MakeDoc(i, f[i])] : f \in [1..k -> pool] } : k \in 0..n }

\* texts of at most n characters
TextsOf(chars, n) == UNION { [1..k -> chars] : k \in 0..n }

-----------------------------------------------------------------------------
(* The component *)

Pending == [kind |-> "pending", docs |-> << >>]

Init ==
    /\ loading = TRUE
    /\ results = << >>
    /\ levelFilter = "all"
    /\ search = << >>
    /\ mounted = TRUE
    /\ pc = "init"
    /\ response = Pending
    /\ fetches = 0
    /\ latestPerStudent = LatestPerStudent(<< >>)
    /\ visible = Visible(LatestPerStudent(<< >>), "all", << >>)

\* variant: the guard flag is never consulted
StillMountedUnchecked == TRUE

\* the test of lines 77, 81 and 84
StillMounted == mounted

\* setResults(value) and the re-render that recomputes both memos
SetResults(value) ==
    /\ results' = value
    /\ latestPerStudent' = LatestPerStudent(value)
    /\ visible' = Visible(LatestPerStudent(value), levelFilter, search)

\* variant: the finally block does not clear the flag
FinallyForgets ==
    loading' = loading

\* finally { if (mounted) setLoading(false); }
Finally ==
    loading' = IF StillMounted THEN FALSE ELSE loading

\* lines 77-78 and 81-82 followed by the finally block: the early return
\* leaves every state variable alone
Settle(value) ==
    /\ IF StillMounted
       THEN SetResults(value) /\ pc' = "done"
       ELSE UNCHANGED <<results, latestPerStudent, visible>> /\ pc' = "discarded"
    /\ Finally
    /\ UNCHANGED <<levelFilter, search, mounted, fetches>>

\* variant: load() starts by clearing the flag
MountNotLoading ==
    /\ pc = "init"
    /\ loading' = FALSE
    /\ fetches' = fetches + 1
    /\ pc' = "awaiting"
    /\ UNCHANGED <<results, levelFilter, search, mounted, response, latestPerStudent, visible>>

\* the effect (line 87): load() runs up to its await
Mount ==
    /\ pc = "init"
    /\ loading' = TRUE
    /\ fetches' = fetches + 1
    /\ pc' = "awaiting"
    /\ UNCHANGED <<results, levelFilter, search, mounted, response, latestPerStudent, visible>>

\* getDocs resolves and every document normalises (lines 75-78, 83-85)
FetchSuccess(snap) ==
    /\ pc = "awaiting"
    /\ response' = [kind |-> "docs", docs |-> snap]
    /\ Settle(NormalizeDocs(snap))

\* variant: the documents are normalised outside the try block, so the
\* exception leaves load()
NormalizeThrowsUncaught(snap) ==
    /\ pc = "awaiting"
    /\ snap # << >>
    /\ response' = [kind |-> "threw", docs |-> << >>]
    /\ pc' = "threw"
    /\ UNCHANGED <<loading, results, levelFilter, search, mounted, fetches, latestPerStudent, visible>>

\* getDocs resolves and normalizeDoc throws on one of its documents
\* (lines 76, 79-85)
NormalizeThrows(snap) ==
    /\ pc = "awaiting"
    /\ snap # << >>
    /\ response' = [kind |-> "threw", docs |-> << >>]
    /\ Settle(<< >>)

\* getDocs rejects (lines 75, 79-85)
FetchReject ==
    /\ pc = "awaiting"
    /\ response' = [kind |-> "rejected", docs |-> << >>]
    /\ Settle(<< >>)

\* onChange of the grade selector (line 139) and the re-render
SetLevelFilter(v) ==
    /\ mounted
    /\ pc # "init"
    /\ levelFilter' = v
    /\ visible' = Visible(latestPerStudent, v, search)
    /\ UNCHANGED <<loading, results, search, mounted, pc, response, fetches, latestPerStudent>>

\* variant: the visible list is not recomputed when the search text changes
SetSearchStale(text) ==
    /\ mounted
    /\ pc # "init"
    /\ search' = text
    /\ UNCHANGED <<visible, loading, results, levelFilter, mounted, pc, response, fetches, latestPerStudent>>

\* onChange of the search box (line 150) and the re-render
SetSearch(text) ==
    /\ mounted
    /\ pc # "init"
    /\ search' = text
    /\ visible' = Visible(latestPerStudent, levelFilter, text)
    /\ UNCHANGED <<loading, results, levelFilter, mounted, pc, response, fetches, latestPerStudent>>

\* the cleanup of the effect (line 88)
Unmount ==
    /\ mounted
    /\ pc # "init"
    /\ mounted' = FALSE
    /\ UNCHANGED <<loading, results, levelFilter, search, pc, response, fetches, latestPerStudent, visible>>

-----------------------------------------------------------------------------
(* Spec: the life of one view over small result sets *)

MaxDocs == 2

Pool ==
    DataSet({Absent, Some("level1"), Some("level2")},
            {<<Absent, Absent>>, <<Some(<<"A">>), Some(<<"b">>)>>},
            {Absent, Some(Timestamp(1))},
            {Absent})

Snapshots == SnapshotsOf(Pool, MaxDocs)

SearchTexts == {<< >>, <<"B">>}

Next ==
    \/ Mount
    \/ \E snap \in Snapshots : FetchSuccess(snap)
    \/ \E snap \in Snapshots : NormalizeThrows(snap)
    \/ FetchReject
    \/ \E v \in LevelFilterOptions : SetLevelFilter(v)
    \/ \E text \in SearchTexts : SetSearch(text)
    \/ Unmount

Spec == Init /\ [][Next]_vars

-----------------------------------------------------------------------------
(* Claims about load() and the life of the view, checked under Spec *)

Resolved == response.kind # "pending"

\* C3: when the fetch resolves while the view is mounted, results is exactly
\* the fetched documents, normalised, in their order on success, and empty on
\* a rejected fetch or an exception while normalising; loading is then false,
\* and load() always ends normally (no exception leaves it).
C3_ResolutionReplacesResults ==
    /\ Resolved => pc \in {"done", "discarded"}
    /\ pc = "done" =>
        /\ loading = FALSE
        /\ response.kind = "docs" =>
            /\ Len(results) = Len(response.docs)
            /\ \A i \in 1..Len(results) :
                /\ results[i].id = response.docs[i].id
                /\ results[i] = NormalizeDoc(response.docs[i])
        /\ response.kind \in {"rejected", "threw"} => results = << >>

C3_Witness ==
    /\ pc = "done"
    /\ mounted
    /\ response.kind = "threw"
    /\ results = << >>
    /\ loading = FALSE

\* C4 as stated: once the fetch has resolved, loading is false, whatever
\* happened in between (teardown included).
C4_LoadingFalseInAllCases ==
    Resolved => loading = FALSE

\* C4 as amended: loading is false once the fetch has resolved while the view
\* was still mounted; when the view was torn down before the fetch resolved,
\* load() leaves loading as it was (true).
C4_LoadingFalseWhileMounted ==
    /\ pc = "done" => loading = FALSE
    /\ pc = "discarded" => loading = TRUE

C4_Witness ==
    /\ pc = "done"
    /\ response.kind = "rejected"
    /\ loading = FALSE

\* C8: from the teardown step on, no step changes records, loading,
\* levelFilter or searchText; the fetch still resolves afterwards.
C8_NoWriteAfterTeardown ==
    [][mounted' = FALSE => UNCHANGED viewState]_vars

C8_Witness ==
    /\ mounted = FALSE
    /\ pc = "discarded"
    /\ response.kind = "docs"
    /\ response.docs # << >>
    /\ results = << >>

\* C9: loading is true in every state in which the fetch is in flight, and no
\* state after the resolution step has the outcome stored with loading true.
C9_LoadingWhileInFlight ==
    /\ pc = "awaiting" => loading = TRUE
    /\ loading = TRUE => pc # "done" /\ results = << >>

C9_Witness ==
    /\ pc = "awaiting"
    /\ mounted
    /\ loading = TRUE
    /\ levelFilter # "all"
    /\ search # << >>

\* C10: exactly one fetch is issued, at mount; a change of levelFilter or
\* searchText issues no fetch, leaves records and loading alone, and leaves
\* visible equal to the derivation of the stored records and the new filters.
C10_FiltersDoNotRefetch ==
    /\ [](/\ fetches <= 1
          /\ pc # "init" => fetches = 1
          /\ visible = Visible(LatestPerStudent(results), levelFilter, search))
    /\ [][(levelFilter' # levelFilter \/ search' # search)
            => UNCHANGED <<results, loading, fetches, pc, response>>]_vars

C10_Witness ==
    /\ pc = "done"
    /\ fetches = 1
    /\ levelFilter = "level2"
    /\ search # << >>
    /\ visible # << >>
    /\ Len(visible) < Len(results)

-----------------------------------------------------------------------------
(* SpecVisible: the same view with every selector option and search texts of *)
(* both cases, over records that differ in level and name                    *)

MaxVisibleDocs == 2

MaxSearchLen == 2

VisiblePool ==
    DataSet({Absent, Some("level1"), Some("level2")},
            {<<Absent, Absent>>, <<Some(<<"A">>), Some(<<"b">>)>>},
            {Some(Timestamp(1))},
            {Absent})

VisibleSnapshots == SnapshotsOf(VisiblePool, MaxVisibleDocs)

VisibleSearchTexts == TextsOf({"a", "B"}, MaxSearchLen)

NextVisible ==
    \/ Mount
    \/ \E snap \in VisibleSnapshots : FetchSuccess(snap)
    \/ \E snap \in VisibleSnapshots : NormalizeThrows(snap)
    \/ FetchReject
    \/ \E v \in LevelFilterOptions : SetLevelFilter(v)
    \/ \E text \in VisibleSearchTexts : SetSearch(text)
    \/ Unmount

SpecVisible == Init /\ [][NextVisible]_vars

\* the lower-cased name contains the lower-cased text
ContainsIgnoringCase(name, text) ==
    \E k \in 0..(Len(name) - Len(text)) :
        \A j \in 1..Len(text) : ToLowerChar(name[k + j]) = ToLowerChar(text[j])

\* C2: every entry of visible has the selected level (or the selector is on
\* "all") and a name containing the search text case-insensitively (or the
\* text is empty); the entry's level and name are those of its record; when
\* the selector names a level no record has, visible is empty.
C2_VisibleRespectsFilters ==
    /\ \A i \in 1..Len(visible) :
        /\ levelFilter = "all" \/ visible[i].level = levelFilter
        /\ search = << >> \/ ContainsIgnoringCase(visible[i].name, search)
        /\ visible[i].level = LevelKey(visible[i].doc)
        /\ visible[i].name = DisplayName(visible[i].doc)
    /\ (/\ levelFilter # "all"
        /\ \A i \in 1..Len(results) : LevelKey(results[i]) # levelFilter)
       => visible = << >>

C2_Witness ==
    /\ levelFilter = "level2"
    /\ search = <<"B">>
    /\ Len(results) = 2
    /\ LevelKey(results[1]) = "level1"
    /\ DisplayName(results[1]) = DisplayName(results[2])
    /\ Len(visible) = 1

-----------------------------------------------------------------------------
(* SpecDedup: the same view over records that share levels and names and     *)
(* differ in createdAt (absent, before, at and after the epoch)              *)

MaxDedupDocs == 2

DedupPool ==
    DataSet({Absent, Some("level1")},
            {<<Absent, Absent>>,
             <<Some(<<"a">>), Absent>>,
             <<Some(<<"c","o","n","s","t","r","u","c","t","o","r">>), Absent>>},
            {Absent, Some(Timestamp(-1)), Some(Timestamp(0)), Some(Timestamp(1))},
            {Absent})

DedupSnapshots == SnapshotsOf(DedupPool, MaxDedupDocs)

DedupFilters == {"all", "level1"}

NextDedup ==
    \/ Mount
    \/ \E snap \in DedupSnapshots : FetchSuccess(snap)
    \/ \E snap \in DedupSnapshots : NormalizeThrows(snap)
    \/ FetchReject
    \/ \E v \in DedupFilters : SetLevelFilter(v)
    \/ \E text \in SearchTexts : SetSearch(text)
    \/ Unmount

SpecDedup == Init /\ [][NextDedup]_vars

\* the (level, display name) pair of a record
PairOf(r) == <<LevelKey(r), DisplayName(r)>>

\* the pairs occurring in results
PairsOfResults == { PairOf(results[i]) : i \in 1..Len(results) }

\* the positions in results of the records of a pair
Group(pair) == { i \in 1..Len(results) : PairOf(results[i]) = pair }

\* createdAt as a number, a missing one counted as 0
TimeOrZero(r) == IF r.createdAt = Absent THEN 0 ELSE r.createdAt[1].ms

\* the first position of a pair's group that has the group's maximum time
FirstLatest(pair) ==
    CHOOSE i \in Group(pair) :
        /\ \A j \in Group(pair) : TimeOrZero(results[j]) <= TimeOrZero(results[i])
        /\ \A j \in Group(pair) :
            TimeOrZero(results[j]) = TimeOrZero(results[i]) => i <= j

\* the entries latestPerStudent holds, as [k, n]: student n of level k
RetainedAt ==
    UNION { { <<k, n>> : n \in 1..Len(latestPerStudent[k].students) } :
            k \in 1..Len(latestPerStudent) }

RetainedPair(e) ==
    <<latestPerStudent[e[1]].level, latestPerStudent[e[1]].students[e[2]].name>>

RetainedDoc(e) == latestPerStudent[e[1]].students[e[2]].doc

\* C1: latestPerStudent holds exactly one record for each (level, name) pair
\* of the input and no other pair, and that record is the first of the pair's
\* records that have the pair's maximum createdAt (a missing one counted 0).
C1_OneLatestPerPair ==
    /\ { RetainedPair(e) : e \in RetainedAt } = PairsOfResults
    /\ \A e1, e2 \in RetainedAt : RetainedPair(e1) = RetainedPair(e2) => e1 = e2
    /\ \A e \in RetainedAt :
        RetainedPair(e) \in PairsOfResults
            => RetainedDoc(e) = results[FirstLatest(RetainedPair(e))]

\* C1 restricted to display names that are not names of Object.prototype:
\* holds of the code.
C1_OneLatestPerOrdinaryPair ==
    /\ { RetainedPair(e) : e \in RetainedAt } \subseteq PairsOfResults
    /\ \A p \in PairsOfResults :
        p[2] \notin ObjectPrototypeKeys => \E e \in RetainedAt : RetainedPair(e) = p
    /\ \A e1, e2 \in RetainedAt : RetainedPair(e1) = RetainedPair(e2) => e1 = e2
    /\ \A e \in RetainedAt :
        RetainedPair(e)[2] \notin ObjectPrototypeKeys
            => RetainedDoc(e) = results[FirstLatest(RetainedPair(e))]

\* C6: in every pair's group holding a record with a createdAt, whatever its
\* value, the retained record has a createdAt.
C6_MissingCreatedAtLosesToPresent ==
    \A e \in RetainedAt :
        (\E i \in Group(RetainedPair(e)) : results[i].createdAt # Absent)
            => RetainedDoc(e).createdAt # Absent

\* C6 restricted to groups whose records with a createdAt are after the
\* epoch: holds of the code.
C6_MissingCreatedAtLosesToLater ==
    \A e \in RetainedAt :
        (\E i \in Group(RetainedPair(e)) :
            results[i].createdAt # Absent /\ results[i].createdAt[1].ms > 0)
            => RetainedDoc(e).createdAt # Absent

-----------------------------------------------------------------------------
(* SpecTop: the same view over one student whose scores vary in keys, order  *)
(* and values, one key being none of the eight categories                    *)

MaxScoreKeys == 4

ScoreKeys == {"Linguistic", "Logical-Mathematical", "Spatial", "Musical", "Foo"}

ScoreValues == {3, MAX_SCORE}

ScoreEntries == { [key |-> k, val |-> v] : k \in ScoreKeys, v \in ScoreValues }

\* score objects of exactly n keys: each key at most once, in the order of
\* Object.entries
RECURSIVE ScoreObjectsOfSize(_)
ScoreObjectsOfSize(n) ==
    IF n = 0 THEN { << >> }
    ELSE { Append(x[1], x[2]) :
             x \in { y \in ScoreObjectsOfSize(n - 1) \X ScoreEntries :
                        \A i \in 1..Len(y[1]) : y[1][i].key # y[2].key } }

ScoreObjects == UNION { ScoreObjectsOfSize(n) : n \in 0..MaxScoreKeys }

TopPool ==
    DataSet({Some("level1")},
            {<<Some(<<"a">>), Absent>>},
            {Some(Timestamp(1))},
            {Absent} \cup { Some(o) : o \in ScoreObjects })

TopSnapshots == { << >> } \cup { << MakeDoc(1, d) >> : d \in TopPool }

NextTop ==
    \/ Mount
    \/ \E snap \in TopSnapshots : FetchSuccess(snap)
    \/ \E snap \in TopSnapshots : NormalizeThrows(snap)
    \/ FetchReject
    \/ \E v \in DedupFilters : SetLevelFilter(v)
    \/ \E text \in SearchTexts : SetSearch(text)
    \/ Unmount

SpecTop == Init /\ [][NextTop]_vars

\* entries is ranked by the positions idx: places of entries, each once, by
\* non-increasing score, equal scores by increasing place, and no place left
\* out ranks before one taken
IsRanking(entries, idx) ==
    /\ \A a, b \in 1..Len(idx) : a < b =>
        \/ entries[idx[a]].val > entries[idx[b]].val
        \/ entries[idx[a]].val = entries[idx[b]].val /\ idx[a] < idx[b]
    /\ \A m \in 1..Len(entries) :
        (\A a \in 1..Len(idx) : idx[a] # m) =>
            \A a \in 1..Len(idx) :
                \/ entries[idx[a]].val > entries[m].val
                \/ entries[idx[a]].val = entries[m].val /\ idx[a] < m

\* top is the labels of the TopN best entries
IsTopOf(top, entries) ==
    /\ Len(top) <= TopN
    /\ Len(top) <= Len(entries)
    /\ Len(top) = TopN \/ Len(top) = Len(entries)
    /\ \E idx \in [1..Len(top) -> 1..Len(entries)] :
        /\ IsRanking(entries, idx)
        /\ \A a \in 1..Len(top) : top[a] = Label(entries[idx[a]].key)

\* C5: topIntelligences(scores, 3) of every displayed record is at most 3
\* labels and at most one per key, those of the highest scores in
\* non-increasing order, equal scores in the order of the keys in scores;
\* an absent scores gives the empty sequence.
C5_TopCategories ==
    \A i \in 1..Len(visible) :
        LET scores == visible[i].doc.scores
        IN  /\ scores = Absent => TopIntelligences(scores, TopN) = << >>
            /\ scores # Absent => IsTopOf(TopIntelligences(scores, TopN), scores[1])
            /\ IsTopOf(RenderCard(visible[i]).top, ScoresOrEmpty(scores)[1])

C5_Witness ==
    /\ pc = "done"
    /\ Len(visible) = 1
    /\ visible[1].doc.scores =
         Some(<< [key |-> "Spatial", val |-> 3],
                 [key |-> "Musical", val |-> MAX_SCORE],
                 [key |-> "Linguistic", val |-> 3],
                 [key |-> "Logical-Mathematical", val |-> MAX_SCORE] >>)
    /\ RenderCard(visible[1]).top = <<"Musical", "Logical/Math", "Spatial">>

IsCategory(k) == \E i \in 1..Len(INTELLIGENCE_KEYS) : INTELLIGENCE_KEYS[i] = k

\* the scores without the keys that are none of the eight categories
OnlyCategories(scores) ==
    IF scores = Absent THEN Absent
    ELSE Some(SelectSeq(scores[1], LAMBDA e : IsCategory(e.key)))

\* C7: a card shows the same thing (Top list and bar rows) with and without
\* the score keys that are none of the eight categories; the record keeps them.
C7_UnknownKeysIgnored ==
    \A i \in 1..Len(visible) :
        /\ RenderCard(visible[i]) =
             RenderCard([visible[i] EXCEPT !.doc.scores = OnlyCategories(@)])
        /\ \E j \in 1..Len(results) : results[j] = visible[i].doc
        /\ \E j \in 1..Len(response.docs) : response.docs[j].scores = visible[i].doc.scores

\* C7 for the bar rows alone: holds of the code.
C7_BarsIgnoreUnknownKeys ==
    \A i \in 1..Len(visible) :
        RenderCard(visible[i]).bars =
            RenderCard([visible[i] EXCEPT !.doc.scores = OnlyCategories(@)]).bars

====
